---- MODULE Spec2Model ----
(***************************************************************************)
(* Model of the job_sched crate (src/src/lib.rs): Job (a cron schedule, a  *)
(* callback, last_tick, limit_missed_runs) and JobScheduler (a Vec of      *)
(* jobs) with add, tick / async_tick and time_till_next_job.               *)
(*                                                                         *)
(* Instants are whole seconds, the granularity of a cron occurrence.  The  *)
(* code compares an occurrence only with a clock reading (event > now) or  *)
(* asks for the occurrences after one, and for a whole-second occurrence   *)
(* both give the same answer for a reading and for its whole second.       *)
(* A schedule is the set of its occurrence instants; the iterator that     *)
(* Schedule::after returns is (schedule, cursor): each next() yields the   *)
(* least occurrence after the cursor and moves the cursor to it.           *)
(***************************************************************************)
EXTENDS Integers, Sequences, FiniteSets, TLC

\* ---- bounds of the model ----
MaxTime == 3        \* the wall clock reads 0..MaxTime
MaxJobs == 2        \* jobs a scheduler holds at most
MaxLimit == 2       \* limit_missed_runs ranges over 0..MaxLimit

\* ---- values ----
None == -1                      \* Option::None of last_tick; also "no next occurrence"
DefaultMs == 500                \* Duration::from_millis(500)
Horizon == MaxTime + 1          \* occurrences lie in 1..Horizon; Horizon is never due

SetMin(S) == CHOOSE x \in S : \A y \in S : x <= y
MinOf(a, b) == IF a <= b THEN a ELSE b

\* The rules: every second, every second second, and a rule whose
\* occurrences end (a cron expression with a year field).
Every(p) == {t \in 1..Horizon : t % p = 0}
Until(k) == 1..k
Schedules == {Every(1), Every(2), Until(2)}

\* Schedule::after(t) / ScheduleIterator::next: the least occurrence strictly
\* after t, None when the occurrences have ended.
NextAfter(schedule, t) ==
    IF {e \in schedule : e > t} = {} THEN None
    ELSE SetMin({e \in schedule : e > t})

\* Schedule::upcoming(Utc).take(1): after() of a clock reading of its own.
Upcoming(schedule, reading) == NextAfter(schedule, reading)

\* A bug: the constructor sets the limit to 2.
JobNewLimitTwo(schedule) ==
    [schedule |-> schedule, limit_missed_runs |-> 2, last_tick |-> None]

\* Job::new
JobNew(schedule) ==
    [schedule |-> schedule, last_tick |-> None, limit_missed_runs |-> 1]

VARIABLES
    mode,       \* "sync": F: FnMut(), tick;  "async": F: Fn() -> Future, async_tick
    jobs,       \* JobScheduler.jobs
    clock,      \* what Utc::now() reads
    pc,         \* "idle", "loop" (the for over jobs), "walk" (the for over
                \* occurrences), "call" (inside the callback), "ttnj"
    idx,        \* position of the for over jobs (1-based)
    now,        \* the local `now` of the running call
    cursor,     \* the occurrence iterator's previous instant
    taken,      \* occurrences the iterator has yielded so far
    duration,   \* the local `duration` of time_till_next_job
    result,     \* the value the last time_till_next_job returned, in ms
    outcome,    \* how the last call ended
    trace,      \* history: the job ticks and invocations of the call in progress
    gaps,       \* history: the d computed for each job by time_till_next_job
    watch,      \* history: one occurrence the cap dropped, <<job, instant, the
                \* now of the tick that dropped it>>, or <<>>
    note,       \* history: one more thing followed across calls, or <<>>:
                \*   <<"prior", stage, r>>   a time_till_next_job result r, kept
                \*                           while the clock stands still
                \*   <<"cut", job, p, e>>    a tick of job cut short in the callback
                \*                           for e, entered with last_tick = p
                \*   <<"ran", job, e, n>>    an occurrence e a completed tick ran,
                \*                           n the now of that tick
                \*   <<"late", job, e>>      an occurrence that became due while
                \*                           the tick of job was running
    follow      \* history: which of these the behaviour follows, fixed at
                \* the start: "drop" (watch), "prior", "cut", "ran", "late"

vars == <<mode, jobs, clock, pc, idx, now, cursor, taken, duration, result,
          outcome, trace, gaps, watch, note, follow>>

Ev(k, j, e, p) == [k |-> k, j |-> j, e |-> e, p |-> p]

\* ---- the decisions of Job::tick ----

\* A bug: None is read as the epoch, so a first tick walks like any other.
FirstTickAsEpoch(job) == FALSE

\* lines 63 / 29: self.last_tick.is_none()
IsFirstTick(job) == job.last_tick = None

\* A bug: the cap lets one occurrence more through.
TakeOneMore(limit, n) == limit > 0 /\ n > limit

\* lines 68-72 / 34-38: .take(limit_missed_runs) has yielded its share; the
\* else branch (limit 0) iterates without take.
TakeDone(limit, n) == limit > 0 /\ n >= limit

\* A bug: an occurrence one second ahead of now counts as due.
DueOneEarly(event, t) == event > t + 1

\* A bug: the walk never breaks on an occurrence that is not yet due.
NeverBreaks(event, t) == FALSE

\* lines 74, 81 / 40, 47: if event > now { break; }
NotYetDue(event, t) == event > t

\* A bug: the walk starts one second before last_tick, so an occurrence at
\* last_tick itself is walked again.
WalkFromBefore(job) == job.last_tick - 1

\* lines 71 / 37: .after(&self.last_tick.unwrap()): where the walk starts
WalkFrom(job) == job.last_tick

\* A bug: last_tick records the last occurrence walked, not now.
LastTickIsLastRun(t, c) == IF c = None THEN t ELSE c

\* A bug: last_tick is written one second short of now.
LastTickShort(t, c) == IF t > 0 THEN t - 1 ELSE t

\* A bug: last_tick is set to the time the tick completes, not to the now
\* read at its entry.
LastTickAtReturn(t, c) == clock

\* A bug: last_tick is only ever moved forward.
LastTickNeverBack(t, c) == IF c # None /\ c > t THEN c ELSE t

\* lines 87, 64 / 53, 30: self.last_tick = Some(now); c is the iterator's
\* previous instant, which the code does not use here.
NewLastTick(t, c) == t

\* ---- the same decisions as Job::async_tick writes them ----

\* line 29: self.last_tick.is_none()
AsyncIsFirstTick(job) == job.last_tick = None

\* A bug: the asynchronous cap lets one occurrence more through.
AsyncTakeOneMore(limit, n) == limit > 0 /\ n > limit

\* lines 34-38: .take(self.limit_missed_runs), or no take when the limit is 0
AsyncTakeDone(limit, n) == limit > 0 /\ n >= limit

\* lines 40, 47: if event > now { break; }
AsyncNotYetDue(event, t) == event > t

\* line 37, 46: .after(&self.last_tick.unwrap())
AsyncWalkFrom(job) == job.last_tick

\* lines 53, 30: self.last_tick = Some(now)
AsyncNewLastTick(t, c) == t

\* lines 134-136: for job in &mut self.jobs { job.async_tick().await; }
AsyncNextJob(i) == i + 1

\* A bug: last_tick is written before the walk, so a tick cut short has
\* already moved it.
UnwoundAfterWrite(js, i, t) == [js EXCEPT ![i].last_tick = t]

\* lines 68-87 / 34-53: the callback is invoked before last_tick is written,
\* so unwinding out of it leaves the jobs as they were at entry.
Unwound(js, i, t) == js

\* A bug: the loop steps over every other job.
SkipJob(i) == i + 2

\* lines 145 / 134: the for over the Vec visits the next index
NextJob(i) == i + 1

\* The occurrences of the window (last_tick, now] the cap leaves out.
Window(schedule, from, to) == {e \in schedule : from < e /\ e <= to}
RECURSIVE FirstN(_, _)
FirstN(S, n) ==
    IF n = 0 \/ S = {} THEN {}
    ELSE {SetMin(S)} \cup FirstN(S \ {SetMin(S)}, n - 1)
Dropped(job, t) ==
    IF job.limit_missed_runs = 0 THEN {}
    ELSE Window(job.schedule, job.last_tick, t)
            \ FirstN(Window(job.schedule, job.last_tick, t), job.limit_missed_runs)

\* ---- time_till_next_job's decisions ----

\* A bug: a single job still counts as none.
IsEmptyOrOne(js) == Len(js) <= 1

\* line 105: self.jobs.is_empty()
IsEmpty(js) == Len(js) = 0

\* A bug: the comparison is turned round, the farthest gap is kept.
CloserIsFarther(dur, d) == dur = 0 \/ d > dur

\* line 113: duration.is_zero() || d < duration
Closer(dur, d) == dur = 0 \/ d < dur

\* line 118: Duration::to_std: seconds to std's milliseconds; Err when negative
To_std(d) == IF d < 0 THEN None ELSE d * 1000

\* JobScheduler::new: no jobs.  kind is what the history follows.
Start(kind) ==
    /\ mode \in {"sync", "async"}
    /\ jobs = <<>>
    /\ clock = 0
    /\ pc = "idle"
    /\ idx = 0
    /\ now = 0
    /\ cursor = None
    /\ taken = 0
    /\ duration = 0
    /\ result = None
    /\ outcome = "none"
    /\ trace = <<>>
    /\ gaps = <<>>
    /\ watch = <<>>
    /\ note = <<>>
    /\ follow = kind

Init == Start("drop")
InitPrior == Start("prior")
InitCut == Start("cut")
InitRan == Start("ran")
InitLate == Start("late")

\* ---- Job::tick as one function of the job and the now it reads ----
\* lines 68-86: the for over the occurrences, as the sequence of the
\* occurrences it invokes the callback for.
RECURSIVE SyncWalk(_, _, _, _)
SyncWalk(job, t, from, n) ==
    IF TakeDone(job.limit_missed_runs, n) THEN <<>>
    ELSE LET event == NextAfter(job.schedule, from)
         IN  IF event = None \/ NotYetDue(event, t) THEN <<>>
             ELSE <<event>> \o SyncWalk(job, t, event, n + 1)

\* lines 61-88: the invocations Job::tick makes and the last_tick it leaves.
SyncTick(job, t) ==
    IF IsFirstTick(job)
    THEN [runs |-> <<>>, last_tick |-> NewLastTick(t, None)]
    ELSE LET runs == SyncWalk(job, t, WalkFrom(job), 0)
             last == IF runs = <<>> THEN WalkFrom(job) ELSE runs[Len(runs)]
         IN  [runs |-> runs, last_tick |-> NewLastTick(t, last)]

\* ---- what the history follows ----
Kind(n) == IF n = <<>> THEN "" ELSE n[1]
Free(kind) == follow = kind /\ note = <<>>

\* The trace helpers the history needs while the call runs.
RunsOf(j) == {trace[p].e : p \in {q \in DOMAIN trace : trace[q].k = "run" /\ trace[q].j = j}}
Done(j) == \E p \in DOMAIN trace : trace[p].k = "exit" /\ trace[p].j = j
NowOf(j) == trace[CHOOSE p \in DOMAIN trace : trace[p].k = "enter" /\ trace[p].j = j].e
PrevOf(j) == trace[CHOOSE p \in DOMAIN trace : trace[p].k = "enter" /\ trace[p].j = j].p

\* An occurrence some completed tick of the call ran, at a now the clock has
\* not gone back behind.
RanChoices ==
    UNION {{<<"ran", j, e, NowOf(j)>> : e \in RunsOf(j)} :
              j \in {i \in 1..Len(jobs) : Done(i) /\ clock >= NowOf(i)}}

\* ---- the host clock ----
ClockAdvance ==
    /\ clock < MaxTime
    /\ clock' = clock + 1
    /\ note' = IF Kind(note) = "prior" THEN <<>> ELSE note
    /\ UNCHANGED <<follow, mode, jobs, pc, idx, now, cursor, taken, duration, result,
                   outcome, trace, gaps, watch>>

\* The wall clock is set back.  The dropped occurrence is watched only while
\* the clock reads no less than the now of the tick that dropped it.
ClockBack ==
    /\ clock > 0
    /\ clock' = clock - 1
    /\ watch' = IF watch # <<>> /\ clock - 1 < watch[3] THEN <<>> ELSE watch
    /\ note' = IF Kind(note) = "prior" THEN <<>>
               ELSE IF Kind(note) = "ran" /\ clock - 1 < note[4] THEN <<>>
               ELSE note
    /\ UNCHANGED <<follow, mode, jobs, pc, idx, now, cursor, taken, duration, result,
                   outcome, trace, gaps>>

\* ---- JobScheduler::add ----
Add ==
    /\ pc = "idle"
    /\ Len(jobs) < MaxJobs
    /\ \E schedule \in Schedules, limit \in 0..MaxLimit :
          jobs' = Append(jobs, [JobNew(schedule) EXCEPT !.limit_missed_runs = limit])
    /\ outcome' = "added"
    /\ trace' = <<>>
    /\ gaps' = <<>>
    /\ result' = None
    /\ note' = IF Kind(note) = "prior"
               THEN IF note[2] \in {2, 5} THEN <<"prior", 3, result>> ELSE <<>>
               ELSE note
    /\ UNCHANGED <<follow, mode, clock, pc, idx, now, cursor, taken, duration, watch>>

\* ---- JobScheduler::tick, Job::tick ----
\* `for job in &mut self.jobs` begins.
StartLoop ==
    /\ pc = "idle"
    /\ pc' = "loop"
    /\ idx' = 1
    /\ outcome' = "none"
    /\ trace' = <<>>
    /\ gaps' = <<>>
    /\ result' = None
    /\ note' = IF Kind(note) = "prior" THEN <<>> ELSE note
    /\ UNCHANGED <<follow, mode, jobs, clock, now, cursor, taken, duration, watch>>

\* The for over the jobs is exhausted: the call returns.
EndLoop ==
    /\ pc = "loop"
    /\ idx > Len(jobs)
    /\ pc' = "idle"
    /\ idx' = 0
    /\ now' = 0
    /\ outcome' = "returned"
    /\ trace' = <<>>
    /\ note' \in IF Kind(note) = "cut" THEN {<<>>}
                 ELSE IF Free("ran") THEN {<<>>} \cup RanChoices
                 ELSE {note}
    /\ UNCHANGED <<follow, mode, jobs, clock, cursor, taken, duration, result, gaps,
                   watch>>

\* Job::tick up to its for loop: now is read once; a first tick only sets
\* last_tick and returns.
EnterJob ==
    /\ pc = "loop"
    /\ idx <= Len(jobs)
    /\ now' = clock
    /\ LET first == IF mode = "async" THEN AsyncIsFirstTick(jobs[idx])
                    ELSE IsFirstTick(jobs[idx])
           written == IF mode = "async" THEN AsyncNewLastTick(clock, None)
                      ELSE NewLastTick(clock, None)
           from == IF mode = "async" THEN AsyncWalkFrom(jobs[idx])
                   ELSE WalkFrom(jobs[idx])
       IN  IF first
           THEN /\ jobs' = [jobs EXCEPT ![idx].last_tick = written]
                /\ trace' = trace \o <<Ev("enter", idx, clock, None),
                                       Ev("exit", idx, clock, None)>>
                /\ idx' = IF mode = "async" THEN AsyncNextJob(idx) ELSE NextJob(idx)
                /\ UNCHANGED <<pc, cursor, taken>>
           ELSE /\ pc' = "walk"
                /\ cursor' = from
                /\ taken' = 0
                /\ trace' = Append(trace, Ev("enter", idx, clock, jobs[idx].last_tick))
                /\ UNCHANGED <<jobs, idx>>
    /\ UNCHANGED <<follow, mode, clock, duration, result, outcome, gaps, watch, note>>

\* What the history may follow when the tick of job i returns at now t:
\* pairs <<watch', note'>>.
ExitChoices(i, job, t) ==
    LET kept == IF Kind(note) = "late" /\ note[2] = i THEN <<>> ELSE note
    IN  {<<watch, kept>>}
        \cup {<<<<i, e, t>>, <<>>>> :
                e \in IF follow = "drop" /\ clock >= t THEN Dropped(job, t) ELSE {}}
        \cup {<<<<>>, <<"late", i, e>>>> :
                e \in IF Free("late") THEN {x \in job.schedule : t < x /\ x <= clock}
                      ELSE {}}

\* One turn of the for over the occurrences: the iterator's next(), the
\* break, the invocation; when the loop ends, last_tick = Some(now) and
\* Job::tick returns.
WalkJob ==
    /\ pc = "walk"
    /\ LET job == jobs[idx]
           capped == IF mode = "async" THEN AsyncTakeDone(job.limit_missed_runs, taken)
                     ELSE TakeDone(job.limit_missed_runs, taken)
           event == IF capped THEN None ELSE NextAfter(job.schedule, cursor)
           over == IF event = None THEN TRUE
                   ELSE IF mode = "async" THEN AsyncNotYetDue(event, now)
                   ELSE NotYetDue(event, now)
           written == IF mode = "async" THEN AsyncNewLastTick(now, cursor)
                      ELSE NewLastTick(now, cursor)
       IN  IF over
           THEN /\ jobs' = [jobs EXCEPT ![idx].last_tick = written]
                /\ \E c \in ExitChoices(idx, job, now) :
                      watch' = c[1] /\ note' = c[2]
                /\ trace' = Append(trace, Ev("exit", idx, now, None))
                /\ idx' = IF mode = "async" THEN AsyncNextJob(idx) ELSE NextJob(idx)
                /\ pc' = "loop"
                /\ cursor' = None
                /\ taken' = 0
           ELSE /\ trace' = Append(trace, Ev("run", idx, event, None))
                /\ cursor' = event
                /\ taken' = taken + 1
                /\ pc' = "call"
                /\ UNCHANGED <<jobs, idx, watch, note>>
    /\ UNCHANGED <<follow, mode, clock, now, duration, result, outcome, gaps>>

\* (self.run)() returns, or its future completes.
RunReturns ==
    /\ pc = "call"
    /\ pc' = "walk"
    /\ UNCHANGED <<follow, mode, jobs, clock, idx, now, cursor, taken, duration, result,
                   outcome, trace, gaps, watch, note>>

\* A bug: the failure is caught inside the walk, which goes on with the next
\* occurrence.
RunFailsCaught(how) ==
    /\ pc = "call"
    /\ pc' = "walk"
    /\ outcome' = how
    /\ UNCHANGED <<follow, mode, jobs, clock, idx, now, cursor, taken, duration,
                   result, trace, gaps, watch, note>>

\* (self.run)() panics, or the future of async_tick is dropped at the await:
\* the frames of Job::tick and JobScheduler::tick are unwound.
RunFails(how) ==
    /\ pc = "call"
    /\ pc' = "idle"
    /\ jobs' = Unwound(jobs, idx, now)
    /\ idx' = 0
    /\ now' = 0
    /\ cursor' = None
    /\ taken' = 0
    /\ outcome' = how
    /\ trace' = <<>>
    /\ note' \in IF Kind(note) = "cut" THEN {<<"cut", idx, PrevOf(idx), cursor>>}
                 ELSE IF Free("cut") THEN {<<>>, <<"cut", idx, PrevOf(idx), cursor>>}
                 ELSE IF Free("ran") THEN {<<>>} \cup RanChoices
                 ELSE {note}
    /\ UNCHANGED <<follow, mode, clock, duration, result, gaps, watch>>

\* The synchronous variant: impl<F: FnMut()>
Tick == mode = "sync" /\ StartLoop
TickReturn == mode = "sync" /\ EndLoop
JobTick == mode = "sync" /\ EnterJob
JobTickWalk == mode = "sync" /\ WalkJob
CallbackReturn == mode = "sync" /\ RunReturns
CallbackPanic == mode = "sync" /\ RunFails("panicked")

\* The asynchronous variant: impl<F: Fn() -> C, C: Future>
AsyncTick == mode = "async" /\ StartLoop
AsyncTickReturn == mode = "async" /\ EndLoop
JobAsyncTick == mode = "async" /\ EnterJob
JobAsyncTickWalk == mode = "async" /\ WalkJob
AwaitReturn == mode = "async" /\ RunReturns
AwaitPanic == mode = "async" /\ RunFails("panicked")
AwaitCancelled == mode = "async" /\ RunFails("cancelled")

\* ---- JobScheduler::time_till_next_job ----
\* Up to the for loop: the empty collection returns the default at once.
TimeTillNextJob ==
    /\ pc = "idle"
    /\ trace' = <<>>
    /\ gaps' = <<>>
    /\ IF IsEmpty(jobs)
       THEN /\ result' = DefaultMs
            /\ outcome' = "default"
            /\ note' = IF follow = "prior" THEN <<"prior", 2, DefaultMs>> ELSE note
            /\ UNCHANGED <<pc, idx, now, duration>>
       ELSE /\ duration' = 0
            /\ now' = clock
            /\ idx' = 1
            /\ pc' = "ttnj"
            /\ result' = None
            /\ outcome' = "none"
            /\ note' = IF Kind(note) = "prior" /\ note[2] = 3
                       THEN <<"prior", 4, note[3]>>
                       ELSE IF follow = "prior" THEN <<"prior", 1, 0>> ELSE note
    /\ UNCHANGED <<follow, mode, jobs, clock, cursor, taken, watch>>

\* One turn of the for over the jobs: upcoming() reads the clock itself.
TimeTillNextJobStep ==
    /\ pc = "ttnj"
    /\ idx <= Len(jobs)
    /\ LET event == Upcoming(jobs[idx].schedule, clock)
           d == event - now
       IN  IF event = None
           THEN UNCHANGED <<duration, gaps>>
           ELSE /\ duration' = IF Closer(duration, d) THEN d ELSE duration
                /\ gaps' = Append(gaps, d)
    /\ idx' = idx + 1
    /\ UNCHANGED <<follow, mode, jobs, clock, pc, now, cursor, taken, result, outcome,
                   trace, watch, note>>

\* duration.to_std().unwrap()
TimeTillNextJobReturn ==
    /\ pc = "ttnj"
    /\ idx > Len(jobs)
    /\ pc' = "idle"
    /\ idx' = 0
    /\ now' = 0
    /\ duration' = 0
    /\ result' = To_std(duration)
    /\ outcome' = IF To_std(duration) = None THEN "panicked" ELSE "computed"
    /\ note' = IF Kind(note) = "prior"
               THEN IF note[2] = 1 THEN <<"prior", 2, To_std(duration)>>
                    ELSE <<"prior", 5, note[3]>>
               ELSE note
    /\ UNCHANGED <<follow, mode, jobs, clock, cursor, taken, trace, gaps, watch>>

Next ==
    \/ ClockAdvance
    \/ ClockBack
    \/ Add
    \/ Tick
    \/ JobTick
    \/ JobTickWalk
    \/ CallbackReturn
    \/ CallbackPanic
    \/ TickReturn
    \/ AsyncTick
    \/ JobAsyncTick
    \/ JobAsyncTickWalk
    \/ AwaitReturn
    \/ AwaitPanic
    \/ AwaitCancelled
    \/ AsyncTickReturn
    \/ TimeTillNextJob
    \/ TimeTillNextJobStep
    \/ TimeTillNextJobReturn

Spec == Init /\ [][Next]_vars
SpecPrior == InitPrior /\ [][Next]_vars
SpecCut == InitCut /\ [][Next]_vars
SpecRan == InitRan /\ [][Next]_vars
SpecLate == InitLate /\ [][Next]_vars

\* ---- one tick of one job, callbacks returning ----
\* A scheduler holding one job, of any rule and limit, never ticked or last
\* ticked at any instant, whose tick is about to begin at any clock reading.
TermInit ==
    /\ mode \in {"sync", "async"}
    /\ \E schedule \in Schedules, limit \in 0..MaxLimit,
          last \in {None} \cup 0..MaxTime :
          jobs = <<[JobNew(schedule) EXCEPT !.limit_missed_runs = limit,
                                            !.last_tick = last]>>
    /\ clock \in 0..MaxTime
    /\ pc = "loop"
    /\ idx = 1
    /\ now = 0
    /\ cursor = None
    /\ taken = 0
    /\ duration = 0
    /\ result = None
    /\ outcome = "none"
    /\ trace = <<>>
    /\ gaps = <<>>
    /\ watch = <<>>
    /\ note = <<>>
    /\ follow = "drop"

\* The steps of the tick; the clock runs on meanwhile.
TickStep ==
    \/ JobTick
    \/ JobTickWalk
    \/ CallbackReturn
    \/ JobAsyncTick
    \/ JobAsyncTickWalk
    \/ AwaitReturn

TermNext ==
    \/ TickStep
    \/ ClockAdvance

\* The tick is not starved and every callback returns.
TermSpec == TermInit /\ [][TermNext]_vars /\ WF_vars(TickStep)

TypeOK ==
    /\ mode \in {"sync", "async"}
    /\ Len(jobs) <= MaxJobs
    /\ \A i \in 1..Len(jobs) :
          /\ jobs[i].schedule \in Schedules
          /\ jobs[i].last_tick \in {None} \cup (0..MaxTime)
          /\ jobs[i].limit_missed_runs \in 0..MaxLimit
    /\ clock \in 0..MaxTime
    /\ pc \in {"idle", "loop", "walk", "call", "ttnj"}
    /\ watch = <<>> \/ (watch[1] \in 1..Len(jobs) /\ watch[2] \in 1..watch[3] /\ watch[3] <= clock)
    /\ follow \in {"drop", "prior", "cut", "ran", "late"}
    /\ watch # <<>> => follow = "drop"
    /\ note # <<>> => follow = Kind(note)
    /\ Kind(note) \in {"", "prior", "cut", "ran", "late"}
\* ---- what the history says about the job ticks of the call in progress ----
Entered(j) == \E p \in DOMAIN trace : trace[p].k = "enter" /\ trace[p].j = j
Exited(j) == \E p \in DOMAIN trace : trace[p].k = "exit" /\ trace[p].j = j
EnterOf(j) == trace[CHOOSE p \in DOMAIN trace : trace[p].k = "enter" /\ trace[p].j = j]
TickNow(j) == EnterOf(j).e      \* the now the tick of job j captured
TickPrev(j) == EnterOf(j).p     \* last_tick of job j at entry
IsRunOf(j, r) == r.k = "run" /\ r.j = j
Invoked(j) ==
    LET runs == SelectSeq(trace, LAMBDA r : IsRunOf(j, r))
    IN  [i \in 1..Len(runs) |-> runs[i].e]
Range(f) == {f[i] : i \in DOMAIN f}
RECURSIVE Ascending(_)
Ascending(S) ==
    IF S = {} THEN <<>> ELSE <<SetMin(S)>> \o Ascending(S \ {SetMin(S)})
TickWindow(j) == Window(jobs[j].schedule, TickPrev(j), TickNow(j))
Limit(j) == jobs[j].limit_missed_runs
Caught(j) == Exited(j) /\ TickPrev(j) # None    \* a completed tick that walked
Returning == pc = "loop" /\ idx > Len(jobs)     \* the for over the jobs is done
RECURSIVE SeqMin(_)
SeqMin(q) ==
    IF Len(q) = 1 THEN q[1] ELSE MinOf(q[1], SeqMin(Tail(q)))

\* C1: a tick of a job whose last_tick was set invokes the callback
\* min(L, |occurrences in (last_tick, now]|) times when L > 0 and once per
\* occurrence of (last_tick, now] when L = 0.
C1_InvocationCount ==
    \A j \in 1..Len(jobs) :
        Caught(j) =>
            Len(Invoked(j)) =
                IF Limit(j) > 0
                THEN MinOf(Limit(j), Cardinality(TickWindow(j)))
                ELSE Cardinality(TickWindow(j))

\* The scenario of the two limits in one call: three missed occurrences, the
\* job capped at 1 ran one of them, the unbounded job all three.
C1_Witness ==
    /\ Len(jobs) = 2
    /\ Caught(1) /\ Limit(1) = 1 /\ Cardinality(TickWindow(1)) = 3
    /\ Len(Invoked(1)) = 1
    /\ Caught(2) /\ Limit(2) = 0 /\ Cardinality(TickWindow(2)) = 3
    /\ Len(Invoked(2)) = 3

\* C2: the first tick of a job (last_tick = None) invokes nothing and sets
\* last_tick to the now it captured, whatever occurrences lie before it and
\* whatever the other jobs have done.
C2_FirstTickBaseline ==
    \A j \in 1..Len(jobs) :
        Exited(j) /\ TickPrev(j) = None =>
            /\ Invoked(j) = <<>>
            /\ jobs[j].last_tick = TickNow(j)

\* A job added after the first job had been ticked has its first tick at a
\* now with occurrences of its rule before it.
C2_Witness ==
    /\ Len(jobs) = 2
    /\ Caught(1)
    /\ Exited(2) /\ TickPrev(2) = None
    /\ Window(jobs[2].schedule, 0, TickNow(2)) # {}

\* C3: no invocation is ever made for an occurrence after the now captured
\* at entry of the tick that makes it.
C3_NoFutureOccurrence ==
    \A p \in DOMAIN trace :
        trace[p].k = "run" => trace[p].e <= TickNow(trace[p].j)

\* An unbounded tick ran occurrences and stopped at one that was not due,
\* although the clock had reached it by the time the tick returned.
C3_Witness ==
    \E j \in 1..Len(jobs) :
        /\ Caught(j) /\ Limit(j) = 0 /\ Invoked(j) # <<>>
        /\ NextAfter(jobs[j].schedule, TickNow(j)) # None
        /\ NextAfter(jobs[j].schedule, TickNow(j)) <= clock

\* C4: the occurrences a tick invokes are, in ascending order, the earliest
\* min(L, count) occurrences of (last_tick, now] when L > 0 and all of them
\* when L = 0; while the tick runs they are a prefix of that sequence.
C4_AscendingPrefix ==
    \A j \in 1..Len(jobs) :
        Entered(j) /\ TickPrev(j) # None =>
            LET due == IF Limit(j) > 0
                       THEN Ascending(FirstN(TickWindow(j), Limit(j)))
                       ELSE Ascending(TickWindow(j))
            IN  /\ Len(Invoked(j)) <= Len(due)
                /\ Invoked(j) = SubSeq(due, 1, Len(Invoked(j)))
                /\ Exited(j) => Invoked(j) = due

\* A tick capped at 2 ran the first two of three due occurrences, in order.
C4_Witness ==
    \E j \in 1..Len(jobs) :
        /\ Caught(j) /\ Limit(j) = 2
        /\ Cardinality(TickWindow(j)) = 3
        /\ Invoked(j) = <<SetMin(TickWindow(j)), SetMin(TickWindow(j)) + 1>>

\* C5: after a tick that returns, last_tick is the now captured at its entry
\* (so it is an occurrence instant only when now is one).
C5_LastTickIsNow ==
    \A j \in 1..Len(jobs) :
        Exited(j) => jobs[j].last_tick = TickNow(j)

\* A tick the cap truncated, at a now that is no occurrence of the rule and
\* differs from the occurrence it ran last.
C5_Witness ==
    \E j \in 1..Len(jobs) :
        /\ Caught(j) /\ Invoked(j) # <<>>
        /\ Cardinality(TickWindow(j)) > Len(Invoked(j))
        /\ TickNow(j) \notin jobs[j].schedule
        /\ jobs[j].last_tick # Invoked(j)[Len(Invoked(j))]

\* C6 as stated: last_tick, once set, never decreases.
C6_NeverDecreases ==
    [][\A i \in 1..Len(jobs) :
          jobs[i].last_tick # None => jobs'[i].last_tick >= jobs[i].last_tick]_vars

\* C6, amended: last_tick, once set, decreases only in a tick whose captured
\* now is earlier than last_tick (the wall clock went backward since the
\* job's previous tick); in every other tick it stays or grows.
C6_DecreasesOnlyOnClockBack ==
    [][\A i \in 1..Len(jobs) :
          (jobs[i].last_tick # None /\ jobs'[i].last_tick < jobs[i].last_tick)
              => (pc = "walk" /\ idx = i /\ now < jobs[i].last_tick)]_vars

\* A tick that moved last_tick forward.
C6_Witness ==
    \E j \in 1..Len(jobs) :
        /\ Caught(j)
        /\ TickNow(j) > TickPrev(j)
        /\ jobs[j].last_tick = TickNow(j)

\* C7: an occurrence the cap dropped from a tick's window is not invoked by
\* that tick nor by any later tick of the job, as long as the clock has not
\* gone back behind the now of the tick that dropped it.
C7_DroppedNeverRun ==
    watch # <<>> =>
        \A p \in DOMAIN trace :
            ~(trace[p].k = "run" /\ trace[p].j = watch[1] /\ trace[p].e = watch[2])

\* After the drop the job was ticked again and ran a later occurrence.
C7_Witness ==
    /\ watch # <<>>
    /\ Caught(watch[1])
    /\ TickPrev(watch[1]) >= watch[2]
    /\ Invoked(watch[1]) # <<>>

\* C8: a bulk tick ticks the jobs in insertion order, each exactly once and
\* each to completion (its invocations included) before the next begins.
C8_InsertionOrder ==
    /\ \A p, q \in DOMAIN trace :
          p < q =>
              /\ trace[p].j <= trace[q].j
              /\ trace[p].j = trace[q].j =>
                    (trace[p].k # "exit" /\ trace[q].k # "enter")
    /\ \A p \in DOMAIN trace : trace[p].k = "run" => Entered(trace[p].j)
    /\ \A j \in 2..Len(jobs) : Entered(j) => Exited(j - 1)
    /\ Returning => \A j \in 1..Len(jobs) : Entered(j) /\ Exited(j)

\* A call about to return in which the first job ran an occurrence later
\* than the occurrence the second job ran after it.
C8_Witness ==
    /\ Returning
    /\ Len(jobs) = 2
    /\ Invoked(1) # <<>> /\ Invoked(2) # <<>>
    /\ Invoked(1)[1] > Invoked(2)[1]

\* C9: with jobs, time_till_next_job returns the minimum of the gaps
\* (next occurrence minus now) computed for the jobs, zero gaps included.
C9_ReturnsMinimumGap ==
    outcome = "computed" /\ gaps # <<>> => result = To_std(SeqMin(gaps))

\* C10: on an empty scheduler time_till_next_job returns exactly 500 ms
\* whatever the clock reads; with a job in it the default is never returned:
\* the loop runs and the value is one of the gaps it computed (zero when no
\* rule has an occurrence left).
C10_DefaultOnlyWhenEmpty ==
    /\ outcome = "default" => (Len(jobs) = 0 /\ result = DefaultMs /\ pc = "idle")
    /\ pc = "ttnj" => Len(jobs) > 0
    /\ outcome = "computed" =>
          /\ Len(jobs) > 0
          /\ result \in {To_std(g) : g \in Range(gaps) \cup {0}}
          /\ gaps # <<>> => result \in {To_std(g) : g \in Range(gaps)}

\* The default was returned at a clock reading other than the first.
C10_Witness ==
    /\ outcome = "default"
    /\ result = DefaultMs
    /\ clock > 0

\* ---- time_till_next_job before and after one add, the clock standing still ----
\* The two calls and the one add between them are over.
AddedBetween == Kind(note) = "prior" /\ note[2] = 5 /\ pc = "idle"
Before == note[3]
\* A job of the collection before the add has an occurrence to come.
SomePending == \E i \in 1..(Len(jobs) - 1) : Upcoming(jobs[i].schedule, clock) # None
\* The added job's next occurrence is sooner than that of every job that was
\* in the collection.
AddedIsSooner ==
    LET u == Upcoming(jobs[Len(jobs)].schedule, clock)
    IN  /\ u # None
        /\ \A i \in 1..(Len(jobs) - 1) :
              LET v == Upcoming(jobs[i].schedule, clock)
              IN  v = None \/ u < v

\* C11 as stated: whatever the scheduler held, after adding a job sooner than
\* every job in it time_till_next_job returns strictly less than before.
C11_AddSoonerDecreases ==
    AddedBetween /\ AddedIsSooner => result < Before

\* C11: when some job already in the collection has an occurrence to come,
\* adding a job whose next occurrence is sooner than every such occurrence
\* makes time_till_next_job, at the same clock reading, return strictly less
\* than it returned before the add.
C11_AddSoonerDecreasesWhenPending ==
    AddedBetween /\ AddedIsSooner /\ SomePending =>
        result # None /\ Before # None /\ result < Before

\* A job every second second was there, a job every second was added, and
\* the second call has returned.
C11_Witness ==
    /\ AddedBetween /\ AddedIsSooner /\ SomePending
    /\ Len(jobs) = 2
    /\ result < Before

\* C12: a call of time_till_next_job that went through the loop always
\* returns, with a non-negative duration; when the smallest gap it computed
\* is negative it returns zero.
C12_NegativeGapClampedToZero ==
    pc = "idle" /\ outcome \in {"computed", "panicked"} /\ gaps # <<>> =>
        /\ outcome = "computed"
        /\ result >= 0
        /\ SeqMin(gaps) < 0 => result = 0

\* ---- a callback that fails ----
Failed == outcome \in {"panicked", "cancelled"}
\* The step in which the callback of job idx fails.
FailStep == pc = "call" /\ pc' \notin {"call", "walk"}

\* C13: a callback failure during JobScheduler::tick ends the call at once
\* with the failure as its outcome: the step leaves every job as it was, no
\* job later in the collection has been entered, and nothing of the call runs
\* afterwards; last_tick of a job is written only by that job's own tick.
\* The job carries no failure mark: the next call that returns has ticked
\* every job, the one whose callback failed included.
C13_FailureAbortsCall ==
    /\ [](Failed => pc = "idle" /\ trace = <<>>)
    /\ [](Kind(note) = "cut" /\ Returning =>
             \A i \in 1..Len(jobs) : Exited(i))
    /\ [][/\ FailStep =>
               /\ pc' = "idle" /\ outcome' \in {"panicked", "cancelled"}
               /\ jobs' = jobs
               /\ \A i \in (idx + 1)..Len(jobs) : ~Entered(i)
          /\ \A i \in 1..Len(jobs) :
               (Len(jobs') = Len(jobs) /\ jobs'[i] # jobs[i]) =>
                   (i = idx /\ pc \in {"loop", "walk"})]_vars

\* The callback of the first of two jobs failed in a synchronous tick; a
\* later tick has gone through both jobs and has invoked the second one.
C13_Witness ==
    /\ mode = "sync"
    /\ Kind(note) = "cut" /\ note[2] = 1
    /\ Len(jobs) = 2
    /\ Returning
    /\ Invoked(2) # <<>>

\* ---- the two variants ----
\* Job j as it was when its tick was entered.
AtEntry(j) == [jobs[j] EXCEPT !.last_tick = TickPrev(j)]
IsPrefix(q, r) == Len(q) <= Len(r) /\ \A i \in 1..Len(q) : q[i] = r[i]

\* C14: in either variant a tick of a job makes exactly the invocations, in
\* the order, that the synchronous Job::tick makes from the same last_tick,
\* limit, rule and now, and leaves the same last_tick; while the tick is
\* under way its invocations are a prefix of those.  An occurrence is taken
\* from the iterator only after the invocation for the one before it has
\* completed: while a callback (or its future) is pending, the last
\* occurrence taken is the one it was invoked for.
C14_SameAlgorithm ==
    /\ \A j \in 1..Len(jobs) :
          Entered(j) =>
             LET r == SyncTick(AtEntry(j), TickNow(j))
             IN  /\ IsPrefix(Invoked(j), r.runs)
                 /\ Exited(j) =>
                       Invoked(j) = r.runs /\ jobs[j].last_tick = r.last_tick
    /\ pc \in {"walk", "call"} => taken = Len(Invoked(idx))
    /\ pc = "call" =>
          /\ IsRunOf(idx, trace[Len(trace)])
          /\ trace[Len(trace)].e = cursor

\* An asynchronous tick has made two invocations and returned.
C14_Witness ==
    /\ mode = "async"
    /\ Caught(1)
    /\ Len(Invoked(1)) = 2
    /\ jobs[1].last_tick = TickNow(1)

\* ---- the default limit ----
HasDefaultLimit(j) == Limit(j) = JobNew(jobs[j].schedule).limit_missed_runs
SetMax(S) == CHOOSE x \in S : \A y \in S : y <= x

\* C15 as stated: with the default limit a tick whose window holds missed
\* occurrences replays one, the latest of them.
C15_ReplaysMostRecent ==
    \A j \in 1..Len(jobs) :
        HasDefaultLimit(j) /\ Caught(j) /\ TickWindow(j) # {} =>
            Invoked(j) = <<SetMax(TickWindow(j))>>

\* C15: with the default limit of 1 a tick replays at most one occurrence,
\* and when its window (last_tick, now] holds any, the one it replays is the
\* earliest of them; the later ones are dropped.
C15_ReplaysEarliest ==
    \A j \in 1..Len(jobs) :
        HasDefaultLimit(j) /\ Caught(j) =>
            /\ Len(Invoked(j)) <= 1
            /\ TickWindow(j) # {} => Invoked(j) = <<SetMin(TickWindow(j))>>

\* A job with the default limit was ticked with three occurrences in its
\* window and replayed the first.
C15_Witness ==
    /\ Len(jobs) >= 1
    /\ HasDefaultLimit(1) /\ Caught(1)
    /\ Cardinality(TickWindow(1)) = 3
    /\ Invoked(1) = <<SetMin(TickWindow(1))>>

\* ---- the clock set back between two ticks ----
\* The tick of job j under way, or done, in this call read a now earlier than
\* the job's last_tick.
TickedBack(j) == Entered(j) /\ TickPrev(j) # None /\ TickNow(j) < TickPrev(j)

\* C16: a tick that reads a now earlier than the job's last_tick invokes the
\* callback for no occurrence, never enters it (so cannot fail in it), and
\* returns with last_tick set to that smaller now.
C16_BackwardClockTick ==
    \A j \in 1..Len(jobs) :
        TickedBack(j) =>
            /\ Invoked(j) = <<>>
            /\ ~(pc = "call" /\ idx = j)
            /\ ~Failed
            /\ ~Exited(j) => (pc = "walk" /\ idx = j /\ jobs[j].last_tick = TickPrev(j))
            /\ Exited(j) => (jobs[j].last_tick = TickNow(j) /\ jobs[j].last_tick < TickPrev(j))

\* last_tick was 2 s, the clock was set back to 1 s or less, and the tick
\* has returned.
C16_Witness ==
    /\ Len(jobs) >= 1
    /\ TickedBack(1) /\ Exited(1)
    /\ TickPrev(1) = 2
    /\ jobs[1].last_tick = TickNow(1)
    /\ jobs[1].schedule = Every(1)

\* ---- termination of one tick ----
\* What the iterator yields next for the job being walked.
NextEvent == NextAfter(jobs[idx].schedule, cursor)

\* C17: when callbacks return, the tick of a job returns.  With a limit
\* L > 0 it never makes more than L invocations.  With L = 0 the walk ends at
\* exactly the step where the rule has no further occurrence or yields one
\* past now, and the tick has then made one invocation for each occurrence in
\* (last_tick, now].
C17_TickTerminates ==
    /\ <>Exited(1)
    /\ [](Entered(1) /\ Limit(1) > 0 => Len(Invoked(1)) <= Limit(1))
    /\ [](Caught(1) /\ Limit(1) = 0 =>
             /\ Len(Invoked(1)) = Cardinality(TickWindow(1))
             /\ Range(Invoked(1)) = TickWindow(1))
    /\ [][pc = "walk" /\ pc' # "walk" /\ Limit(1) = 0 =>
             (pc' = "loop" <=> (NextEvent = None \/ NextEvent > now))]_vars

\* A tick without a limit has returned after three invocations.
C17_Witness ==
    /\ Exited(1)
    /\ Limit(1) = 0
    /\ Len(Invoked(1)) = 3

\* ---- a tick cut short in a callback ----
CutJob == note[2]
CutPrev == note[3]      \* last_tick of the job when the cut tick was entered
CutEvent == note[4]     \* the occurrence whose callback failed or was dropped
\* The occurrences the cut tick had invoked the callback for.
CutInvoked == Window(jobs[CutJob].schedule, CutPrev, CutEvent)

\* C18: after a callback failed or was cancelled in the middle of a job's
\* walk, the job's last_tick is the value it had when that tick was entered,
\* until a later tick of the job returns; that later tick is entered with the
\* old last_tick, walks from it, and invokes again every occurrence the cut
\* tick had invoked that is not after its own now.
C18_CutTickKeepsLastTick ==
    Kind(note) = "cut" =>
        /\ ~Exited(CutJob) => jobs[CutJob].last_tick = CutPrev
        /\ Entered(CutJob) =>
              /\ TickPrev(CutJob) = CutPrev
              /\ IsPrefix(Invoked(CutJob),
                          SyncWalk(AtEntry(CutJob), TickNow(CutJob), CutPrev, 0))
        /\ Exited(CutJob) =>
              \A e \in CutInvoked :
                  e <= TickNow(CutJob) => e \in Range(Invoked(CutJob))

\* An asynchronous tick was cut at the second occurrence of its walk, and the
\* next tick of the job has returned having invoked both again.
C18_Witness ==
    /\ mode = "async"
    /\ Kind(note) = "cut" /\ CutJob = 1
    /\ Cardinality(CutInvoked) = 2
    /\ Exited(1)
    /\ CutInvoked \subseteq Range(Invoked(1))

\* ---- an occurrence a completed tick invoked ----
RanJob == note[2]
RanEvent == note[3]
RanNow == note[4]       \* the now of the tick that invoked it

\* C19: once a completed tick of a job has invoked the callback for an
\* occurrence, no later tick of that job invokes it again while the clock
\* does not go back behind that tick's now: every later tick is entered with
\* a last_tick no earlier than that now, so its window (last_tick, now] lies
\* after the earlier one, and an occurrence equal to the earlier now, invoked
\* then, is outside it.
C19_NoOccurrenceTwice ==
    Kind(note) = "ran" =>
        /\ RanEvent <= RanNow
        /\ RanEvent \notin Range(Invoked(RanJob))
        /\ Entered(RanJob) =>
              /\ TickPrev(RanJob) >= RanNow
              /\ TickWindow(RanJob) \cap Window(jobs[RanJob].schedule, None, RanNow) = {}

\* A tick invoked the occurrence equal to its now; the next tick of the job,
\* at a later now, has returned after invoking a later occurrence.
C19_Witness ==
    /\ Kind(note) = "ran"
    /\ RanEvent = RanNow
    /\ Caught(RanJob)
    /\ TickPrev(RanJob) = RanNow
    /\ Invoked(RanJob) # <<>>

\* ---- an occurrence that became due while a tick was running ----
LateJob == note[2]
LateEvent == note[3]
\* The step in which the next tick of the job returns.
NextTickReturns ==
    Kind(note) = "late" /\ pc = "walk" /\ pc' = "loop" /\ idx = LateJob

\* C20: an occurrence after the now a tick read at entry but due by the time
\* the tick returned was not invoked by that tick, and the tick left
\* last_tick, the entry-time now, before it.  last_tick stays there until the
\* next tick of the job returns; that tick's window starts before the
\* occurrence and, when its now has reached the occurrence, contains it, and
\* the tick has invoked it if the limit is 0 or it is among the first L
\* occurrences of the window.
C20_LateOccurrenceNotLost ==
    /\ [](Kind(note) = "late" =>
             /\ jobs[LateJob].last_tick # None
             /\ jobs[LateJob].last_tick < LateEvent
             /\ Exited(LateJob) =>
                   /\ TickNow(LateJob) < LateEvent
                   /\ LateEvent \notin Range(Invoked(LateJob)))
    /\ [][NextTickReturns =>
             /\ TickPrev(idx) < LateEvent
             /\ now >= LateEvent =>
                   /\ LateEvent \in TickWindow(idx)
                   /\ (Limit(idx) = 0 \/
                       LateEvent \in FirstN(TickWindow(idx), Limit(idx))) =>
                          LateEvent \in Range(Invoked(idx))]_vars

\* The occurrence became due during a tick; the next tick of the job has
\* invoked the callback for it.
C20_Witness ==
    /\ Kind(note) = "late"
    /\ Entered(LateJob) /\ ~Exited(LateJob)
    /\ LateEvent \in Range(Invoked(LateJob))
    /\ TickPrev(LateJob) < LateEvent
====
